---- MODULE Spec2Model ----
(***************************************************************************)
(* A model of the exact any-to-any retrieval engine of                     *)
(* mteb/evaluation/evaluators/Audio/Any2AnyRetrievalEvaluator.py:          *)
(*   - Any2AnyDenseRetrievalExactSearch.search : the chunked top-k scan,   *)
(*   - Any2AnyRetrievalEvaluator.evaluate      : the metrics aggregator.   *)
(* Identifiers (query ids, corpus ids) are small integers standing for the *)
(* strings of the program; their integer order stands for string order.    *)
(* Embeddings are one-dimensional vectors; a component may be NaN.         *)
(* A dict is a function; a dict whose insertion order the program reads    *)
(* is a sequence of <<key, value>> pairs with distinct keys.               *)
(***************************************************************************)
EXTENDS Integers, Sequences, FiniteSets, TLC

\* ------------------------------------------------------------------ bounds
MaxCorpus == 3       \* corpus items per call
MaxK == 2            \* evaluate() is given the cutoffs k_values = [1, .., MaxK]
MaxTopK == 2         \* largest top_k a caller passes
MaxEntries == 2      \* entries of the top-level object of a results file
MaxLoads == 2        \* searchers constructed over the same reference

\* ------------------------------------------------------------ value spaces
\* One embedding component: a number, or NaN (isnan).
NaNVal == [isnan |-> TRUE, val |-> 0]
Num(v) == [isnan |-> FALSE, val |-> v]
CorpusEmbVals == {NaNVal, Num(1), Num(2)}
\* The injected encoder is deterministic: query i always embeds to the same
\* vector. Odd queries embed to <<1>>, even ones to <<-1>>, so two queries rank
\* the corpus in opposite orders.
QueryEmb(qid) == IF qid % 2 = 1 THEN Num(1) ELSE Num(0 - 1)

\* The corpus ids 1..n in the two orders in which position and id order agree
\* (a later item has the greater id) or are opposed (the smaller id).
IdOrders(n) == {[i \in 1..n |-> i], [i \in 1..n |-> n + 1 - i]}

\* The modality tags of items: the three the search dispatches on, and one it
\* does not know.
Modalities == {"text", "audio", "audio,text", "image"}

\* A Dataset of items: a sequence of records with distinct ids (here all text).
Corpora ==
    UNION {{[i \in 1..n |-> [id |-> p[i], emb |-> e[i], modality |-> "text"]] :
              p \in IdOrders(n), e \in [1..n -> CorpusEmbVals]} : n \in 0..MaxCorpus}
\* The query Datasets of a search() call: none, one or two queries.
QueryIdLists == {<<>>, <<1>>, <<1, 2>>}
QuerySets ==
    {[i \in 1..Len(ids) |-> [id |-> ids[i], emb |-> QueryEmb(ids[i]),
                              modality |-> "text"]] :
        ids \in QueryIdLists}

\* Datasets whose items carry any modality tag, item by item for the corpus
\* and one tag for all queries; ids in corpus order, two embedding values.
TaggedCorpora ==
    UNION {{[i \in 1..n |-> [id |-> i, emb |-> Num(1 + (i % 2)), modality |-> m[i]]] :
              m \in [1..n -> Modalities]} : n \in 0..MaxCorpus}
TaggedQuerySets ==
    {[i \in 1..Len(ids) |-> [id |-> ids[i], emb |-> QueryEmb(ids[i]), modality |-> m]] :
        ids \in QueryIdLists, m \in Modalities}

\* The score_function names a caller passes: the two registered ones and one
\* that is not registered.
ScoreFunctionNames == {"cos_sim", "dot", "euclid"}

\* The inputs of an evaluate() call: query and document ids share one name
\* space (a query may retrieve its own id), scores and relevance grades.
EvalQueryIds == {1, 2}
EvalQueryLists == {<<>>, <<1>>, <<2>>, <<1, 2>>}
EvalDocIds == {1, 2}
EvalScores == {1, 2}
Grades == {0, 1}

VARIABLES
    corpus,             \* search(corpus, ...): the corpus Dataset
    queries,            \* search(..., queries, ...): the query Dataset
    corpus_chunk_size,  \* self.corpus_chunk_size
    top_k,              \* search(..., top_k, ...)
    pc,                 \* position of the search() call
    results,            \* self.results
    result_heaps,       \* result_heaps: query id -> heap of <<score, corpus_id>>
    chunk_start,        \* loop variable of the chunk scan (0-based)
    query_itr,          \* loop variable of the per-query loop (1-based here)
    top_k_cands,        \* zip(top_k_idx[q], top_k_values[q]) still to be iterated
    returned,           \* what earlier search() calls returned to their caller
    model,              \* self.model: the injected encoder, or None
    score_function,     \* search(..., score_function, ...)
    encode_log,         \* the self.model.get_*_embeddings calls of the current call
    exception,          \* the exception search() raised: its type and embedded value
    \* ---- Any2AnyRetrievalEvaluator.evaluate
    qrels,                 \* evaluate(qrels, ...): query id -> (doc id -> grade)
    ev_results,            \* evaluate(..., results, ...): the caller's ranking,
                           \* a list of <<qid, list of <<pid, score>>>> in dict order
    k_values,              \* evaluate(..., k_values, ...)
    ignore_identical_ids,  \* flag
    skip_first_result,     \* flag
    ev_pc,                 \* position of the evaluate() call
    scores,                \* scores = evaluator.evaluate(results)
    sorted_results,        \* sorted_results
    all_recalls,           \* all_recalls["Recall@k"], as k -> list
    all_precisions,        \* all_precisions["P@k"], as k -> list
    all_cv_recalls,        \* all_cv_recalls["CV_Recall@k"], as k -> list
    means,                 \* the returned recall, precision and cv_recall means
    all_sim_scores,        \* evaluate_abstention: one score list per ranking query
    called_with            \* the qrels and results as they were when evaluate() was called

evars == <<qrels, ev_results, k_values, ignore_identical_ids, skip_first_result,
           ev_pc, scores, sorted_results, all_recalls, all_precisions,
           all_cv_recalls, means, all_sim_scores, called_with>>

svars == <<corpus, queries, corpus_chunk_size, top_k, pc, results, result_heaps,
           chunk_start, query_itr, top_k_cands, returned, model, score_function,
           encode_log, exception>>

\* ---- Any2AnyDenseRetrievalExactSearch.load_results_file
VARIABLES
    reference,          \* the previous_results argument of the constructor
    previous_results,   \* self.previous_results, a path while the file is loaded
    files,              \* the file system: path -> parsed JSON content
    remote,             \* what the remote reference serves
    load_pc,            \* position of the load_results_file() call
    download_log,       \* the download(url, dest) calls of the current call
    loaded,             \* what load_results_file() returned
    load_calls,         \* how many times the reference has been loaded
    files_at_call       \* the file system as it was when the call began

lvars == <<reference, previous_results, files, remote, load_pc, download_log, loaded,
           load_calls, files_at_call>>

vars == <<svars, evars, lvars>>

\* ------------------------------------------------------------ pure helpers
Min(a, b) == IF a < b THEN a ELSE b

\* list(dataset["id"])
Ids(dataset) == [i \in 1..Len(dataset) |-> dataset[i].id]

\* dot_score on one-dimensional embeddings: NaN is contagious.
dot_score(a, b) ==
    IF a.isnan \/ b.isnan THEN NaNVal ELSE Num(a.val * b.val)

\* sim_scores[torch.isnan(sim_scores)] = -1, then .tolist()
NanToMinusOne(s) == IF s.isnan THEN 0 - 1 ELSE s.val

\* corpus.select(range(chunk_start, min(chunk_start + size, len(corpus)))),
\* as the 1-based positions of the chunk's items in the corpus.
ChunkRange(start, size, n) == (start + 1)..Min(start + size, n)

\* Python's tuple order on (score, corpus_id).
TupleLess(a, b) == a[1] < b[1] \/ (a[1] = b[1] /\ a[2] < b[2])

\* heap[0]: the least entry of a non-empty heap.
HeapMin(heap) == CHOOSE m \in heap : \A e \in heap : m = e \/ TupleLess(m, e)

\* heapq.heappush(heap, item). A heap is modelled by the set of its entries.
heappush(heap, item) == heap \cup {item}

\* Faulty variant of heappushpop: a full heap refuses every further candidate.
heappushpop_Refuse(heap, item) == heap

\* Faulty variant of heappushpop: the greatest entry is evicted, not the least.
heappushpop_EvictMax(heap, item) ==
    IF heap # {} /\ TupleLess(HeapMin(heap), item)
    THEN (heap \ {CHOOSE m \in heap : \A e \in heap : m = e \/ TupleLess(e, m)})
            \cup {item}
    ELSE heap

\* heapq.heappushpop(heap, item): if heap and heap[0] < item, item replaces
\* heap[0]; otherwise the heap is left as it is.
heappushpop(heap, item) ==
    IF heap # {} /\ TupleLess(HeapMin(heap), item)
    THEN (heap \ {HeapMin(heap)}) \cup {item}
    ELSE heap

\* Faulty variant of HeapInsert: no capacity test, every candidate is pushed.
HeapInsert_Unbounded(heap, k, item) == heappush(heap, item)

\* The body of the candidate loop, lines 258-261.
HeapInsert(heap, k, item) ==
    IF Cardinality(heap) < k THEN heappush(heap, item) ELSE heappushpop(heap, item)

\* Faulty variant of TopKChoices: any k indices of the row.
TopKChoices_AnyIndices(row, k) == {S \in SUBSET (DOMAIN row) : Cardinality(S) = k}

\* torch.topk(row, k, largest=True, sorted=False): the index sets it may return.
\* Which of several equal scores is kept is not specified by torch, so every
\* selection of k indices that dominates the rest is a possible outcome.
TopKChoices(row, k) ==
    {S \in SUBSET (DOMAIN row) :
        /\ Cardinality(S) = k
        /\ \A i \in S : \A j \in (DOMAIN row) \ S : row[i] >= row[j]}

\* ------------------------------------------------------------------ search
EmptyRanking(query_ids) ==
    [qid \in {query_ids[i] : i \in 1..Len(query_ids)} |-> <<>>]

\* Faulty variant of score_functions: every name is taken as registered.
score_functions_AnyName == ScoreFunctionNames

\* self.score_functions = {"cos_sim": cos_sim, "dot": dot_score}
score_functions == {"cos_sim", "dot"}

Sign(v) == IF v > 0 THEN 1 ELSE IF v < 0 THEN 0 - 1 ELSE 0

\* cos_sim on one-dimensional embeddings: the product of the normalised
\* components, NaN being contagious.
cos_sim(a, b) ==
    IF a.isnan \/ b.isnan THEN NaNVal ELSE Num(Sign(a.val) * Sign(b.val))

\* self.score_functions[score_function](query_embeddings, sub_corpus_embeddings)
ScoreWith(name, a, b) == IF name = "cos_sim" THEN cos_sim(a, b) ELSE dot_score(a, b)

\* The encoder method the if/elif chains of lines 125-170 and 190-235 select.
EncoderOf(modality) ==
    IF modality = "text" THEN "get_text_embeddings"
    ELSE IF modality = "audio" THEN "get_audio_embeddings"
    ELSE "get_fused_embeddings"

SupportedModalities == {"text", "audio", "audio,text"}

\* The line of the query-side self.model.get_*_embeddings call of a modality.
QueryEncodeLine(modality) ==
    IF modality = "text" THEN "raised:127"
    ELSE IF modality = "audio" THEN "raised:144"
    ELSE "raised:162"

NoException == [type |-> "", value |-> ""]

\* Lines 311-324, Any2AnyRetrievalEvaluator.__call__: self.retriever is the
\* searcher that __init__ (lines 303-305) wraps around the retriever argument,
\* an object without __bool__ or __len__, so "not self.retriever" is false
\* whatever the argument was, and search() is called.
EvaluatorCall ==
    /\ pc = "evaluator_call"
    /\ UNCHANGED <<evars, lvars>>
    /\ pc' = "call"
    /\ UNCHANGED <<corpus, queries, corpus_chunk_size, top_k, results, result_heaps,
                   chunk_start, query_itr, top_k_cands, returned, model,
                   score_function, encode_log, exception>>

\* Lines 114-181: the score function test, the query side and the set-up of
\* the scan. queries[0] (line 123) and corpus[0] (line 174) raise IndexError on
\* an empty Dataset; a model that is None raises AttributeError where the first
\* encoder method is looked up. A raised exception is kept in pc with the line
\* that raised it, its type and the value its message embeds in exception.
SearchBegin ==
    /\ pc = "call"
    /\ UNCHANGED <<evars, lvars>>
    /\ IF score_function \notin score_functions
       THEN /\ pc' = "raised:115"
            /\ exception' = [type |-> "ValueError", value |-> score_function]
            /\ encode_log' = <<>>
            /\ UNCHANGED <<results, result_heaps, chunk_start>>
       ELSE /\ results' = EmptyRanking(Ids(queries))
            /\ IF Len(queries) = 0
               THEN /\ pc' = "raised:123"
                    /\ exception' = [type |-> "IndexError", value |-> ""]
                    /\ encode_log' = <<>>
                    /\ UNCHANGED <<result_heaps, chunk_start>>
               ELSE IF queries[1].modality \notin SupportedModalities
               THEN /\ pc' = "raised:170"
                    /\ exception' = [type |-> "ValueError", value |-> queries[1].modality]
                    /\ encode_log' = <<>>
                    /\ UNCHANGED <<result_heaps, chunk_start>>
               ELSE IF model = "None"
               THEN /\ pc' = QueryEncodeLine(queries[1].modality)
                    /\ exception' = [type |-> "AttributeError",
                                     value |-> EncoderOf(queries[1].modality)]
                    /\ encode_log' = <<>>
                    /\ UNCHANGED <<result_heaps, chunk_start>>
               ELSE /\ encode_log' = <<[role |-> "query",
                                        encoder |-> EncoderOf(queries[1].modality),
                                        ids |-> Ids(queries)]>>
                    /\ IF Len(corpus) = 0
                       THEN /\ pc' = "raised:174"
                            /\ exception' = [type |-> "IndexError", value |-> ""]
                            /\ UNCHANGED <<result_heaps, chunk_start>>
                       ELSE /\ pc' = "scan"
                            /\ exception' = NoException
                            /\ result_heaps' =
                                 [qid \in {queries[i].id : i \in 1..Len(queries)} |-> {}]
                            /\ chunk_start' = 0
    /\ UNCHANGED <<corpus, queries, corpus_chunk_size, top_k, query_itr,
                   top_k_cands, returned, model, score_function>>

\* Lines 182-250: select the chunk, encode it with the encoder of
\* corpus_modality (taken from corpus[0] at line 174), score it against every
\* query, replace NaN by -1 and take the top min(top_k, chunk length) of every
\* row. A corpus_modality outside the three known ones raises at line 235.
ChunkScore ==
    /\ pc = "scan"
    /\ UNCHANGED <<evars, lvars>>
    /\ chunk_start < Len(corpus)
    /\ LET corpus_modality == corpus[1].modality
           rng == ChunkRange(chunk_start, corpus_chunk_size, Len(corpus))
           width == Cardinality(rng)
           chunk_ids == [j \in 1..width |-> corpus[chunk_start + j].id]
           sim_scores == [q \in 1..Len(queries) |->
                            [j \in 1..width |->
                               NanToMinusOne(ScoreWith(score_function, queries[q].emb,
                                                       corpus[chunk_start + j].emb))]]
       IN IF corpus_modality \notin SupportedModalities
          THEN /\ pc' = "raised:235"
               /\ exception' = [type |-> "ValueError", value |-> corpus_modality]
               /\ UNCHANGED <<top_k_cands, query_itr, encode_log>>
          ELSE /\ encode_log' = Append(encode_log,
                                       [role |-> "passage",
                                        encoder |-> EncoderOf(corpus_modality),
                                        ids |-> chunk_ids])
               /\ \E top_k_idx \in [1..Len(queries) -> SUBSET (1..width)] :
                    /\ \A q \in 1..Len(queries) :
                         top_k_idx[q] \in TopKChoices(sim_scores[q], Min(top_k, width))
                    /\ top_k_cands' = [q \in 1..Len(queries) |->
                                         {<<j, sim_scores[q][j]>> : j \in top_k_idx[q]}]
               /\ query_itr' = 1
               /\ pc' = "push"
               /\ UNCHANGED exception
    /\ UNCHANGED <<corpus, queries, corpus_chunk_size, top_k, results, result_heaps,
                   chunk_start, returned, model, score_function>>

\* Lines 254-261: one iteration of the candidate loop of the current query.
\* With sorted=False the candidates come in no specified order.
HeapUpdate ==
    /\ pc = "push"
    /\ UNCHANGED <<evars, lvars>>
    /\ query_itr <= Len(queries)
    /\ \E cand \in top_k_cands[query_itr] :
         LET query_id == queries[query_itr].id
             corpus_id == corpus[chunk_start + cand[1]].id
             score == cand[2]
         IN /\ result_heaps' =
                  [result_heaps EXCEPT ![query_id] = HeapInsert(@, top_k, <<score, corpus_id>>)]
            /\ top_k_cands' = [top_k_cands EXCEPT ![query_itr] = @ \ {cand}]
    /\ UNCHANGED <<corpus, queries, corpus_chunk_size, top_k, pc, results,
                   chunk_start, query_itr, returned, model, score_function,
                   encode_log, exception>>

\* Line 252: the candidates of this query are exhausted, go to the next query.
NextQuery ==
    /\ pc = "push"
    /\ UNCHANGED <<evars, lvars>>
    /\ query_itr <= Len(queries)
    /\ top_k_cands[query_itr] = {}
    /\ query_itr' = query_itr + 1
    /\ UNCHANGED <<corpus, queries, corpus_chunk_size, top_k, pc, results,
                   result_heaps, chunk_start, top_k_cands, returned, model,
                   score_function, encode_log, exception>>

\* Faulty variant of ChunkStep: the range steps one item short, so the last
\* item of a chunk is the first of the next.
ChunkStep_Overlap(start, size) == IF size > 1 THEN start + size - 1 ELSE start + size

\* Line 182: range(0, len(corpus), self.corpus_chunk_size), the next chunk_start.
ChunkStep(start, size) == start + size

\* Line 182: all queries done for this chunk, step the range.
NextChunk ==
    /\ pc = "push"
    /\ UNCHANGED <<evars, lvars>>
    /\ query_itr > Len(queries)
    /\ chunk_start' = ChunkStep(chunk_start, corpus_chunk_size)
    /\ pc' = "scan"
    /\ UNCHANGED <<corpus, queries, corpus_chunk_size, top_k, results,
                   result_heaps, query_itr, top_k_cands, returned, model,
                   score_function, encode_log, exception>>

\* Lines 263-265: self.results[qid][corpus_id] = score for every heap entry.
\* A per-query result dict is kept as a function corpus_id -> score.
DrainHeap(heap) ==
    [cid \in {e[2] : e \in heap} |-> (CHOOSE e \in heap : e[2] = cid)[1]]

\* Lines 263-267: drain the heaps into self.results and return it.
SearchReturn ==
    /\ pc = "scan"
    /\ UNCHANGED <<evars, lvars>>
    /\ chunk_start >= Len(corpus)
    /\ results' = [qid \in DOMAIN results |-> DrainHeap(result_heaps[qid])]
    /\ pc' = "returned"
    /\ returned' = Append(returned, [top_k |-> top_k,
                                     corpus_chunk_size |-> corpus_chunk_size,
                                     ranking |-> results'])
    /\ UNCHANGED <<corpus, queries, corpus_chunk_size, top_k, result_heaps,
                   chunk_start, query_itr, top_k_cands, model, score_function,
                   encode_log, exception>>

\* Lines 71-99: another searcher is constructed over the same model with a
\* different corpus_chunk_size (self.results = {}), to be called with the same
\* arguments as the call before.
Construct ==
    /\ pc = "returned"
    /\ UNCHANGED <<evars, lvars>>
    /\ Len(returned) = 1
    /\ \E size \in (1..MaxCorpus) \ {corpus_chunk_size} : corpus_chunk_size' = size
    /\ results' = <<>>
    /\ pc' = "call"
    /\ UNCHANGED <<corpus, queries, top_k, result_heaps, chunk_start, query_itr,
                   top_k_cands, returned, model, score_function, encode_log,
                   exception>>

\* Lines 104-113: the caller calls search() of the same searcher once more, on
\* the same corpus and queries, with a larger top_k.
SearchAgain ==
    /\ pc = "returned"
    /\ UNCHANGED <<evars, lvars>>
    /\ Len(returned) = 1
    /\ \E k \in (top_k + 1)..MaxTopK : top_k' = k
    /\ pc' = "call"
    /\ UNCHANGED <<corpus, queries, corpus_chunk_size, results, result_heaps,
                   chunk_start, query_itr, top_k_cands, returned, model,
                   score_function, encode_log, exception>>

\* Lines 104-113: the caller calls search() of the same searcher once more, on
\* the same corpus and queries, with a score_function that is not registered.
SearchUnregistered ==
    /\ pc = "returned"
    /\ UNCHANGED <<evars, lvars>>
    /\ Len(returned) = 1
    /\ \E name \in ScoreFunctionNames \ score_functions : score_function' = name
    /\ pc' = "call"
    /\ UNCHANGED <<corpus, queries, corpus_chunk_size, top_k, results, result_heaps,
                   chunk_start, query_itr, top_k_cands, returned, model,
                   encode_log, exception>>

\* --------------------------------------------------------- load_results_file
\* A string is kept as the sequence of its pieces: the scheme "https://", the
\* separator "/", and names that hold neither.
LocalRef == <<"results", "/", "run.json">>
RemoteRef == <<"https://", "host", "/", "run.json">>

\* "https://" in self.previous_results
HasScheme(path) == \E i \in 1..Len(path) : path[i] = "https://"

\* self.previous_results.split("https://")[-1]: what follows the last scheme.
AfterScheme(path) ==
    LET last == CHOOSE i \in 1..Len(path) :
                    /\ path[i] = "https://"
                    /\ \A j \in (i + 1)..Len(path) : path[j] # "https://"
    IN SubSeq(path, last + 1, Len(path))

\* .replace("/", "--")
ReplaceSeparators(path) == [i \in 1..Len(path) |-> IF path[i] = "/" THEN "--" ELSE path[i]]

\* Lines 272-277: os.path.join("results", f"cached_predictions--{url_descriptor}")
DestFile(ref) ==
    <<"results", "/", "cached_predictions--">> \o ReplaceSeparators(AfterScheme(ref))

\* The paths the file system is followed on.
Paths == {LocalRef, RemoteRef, DestFile(RemoteRef)}

\* What json.load returns: an object, kept as the kinds of its values in key
\* order, or something that is not an object.
Absent == [top |-> "absent", values |-> <<>>]
JsonObjects ==
    UNION {{[top |-> "object", values |-> v] : v \in [1..n -> {"object", "number"}]} :
             n \in 0..MaxEntries}
JsonValues == JsonObjects \cup {[top |-> "array", values |-> <<>>]}

\* Lines 270-283: a reference holding "https://" is downloaded to dest_file
\* unless os.path.exists(self.previous_results), a test of the reference
\* itself; dest_file is bound only inside that branch, so line 283 raises
\* UnboundLocalError when the reference exists as a path. download() writes
\* what the remote serves to dest_file.
LoadBegin ==
    /\ load_pc = "call"
    /\ UNCHANGED <<svars, evars>>
    /\ IF HasScheme(previous_results)
       THEN IF files[previous_results] = Absent
            THEN /\ download_log' = Append(download_log,
                                           <<previous_results, DestFile(previous_results)>>)
                 /\ files' = [files EXCEPT ![DestFile(previous_results)] = remote]
                 /\ previous_results' = DestFile(previous_results)
                 /\ load_pc' = "open"
            ELSE /\ load_pc' = "raised:283"
                 /\ UNCHANGED <<download_log, files, previous_results>>
       ELSE /\ load_pc' = "open"
            /\ UNCHANGED <<download_log, files, previous_results>>
    /\ UNCHANGED <<reference, remote, loaded, load_calls, files_at_call>>

\* Lines 285-289: open and parse the file, assert that it is a dict and that
\* the value of its first key is a dict, return it.
LoadParse ==
    /\ load_pc = "open"
    /\ UNCHANGED <<svars, evars>>
    /\ LET parsed == files[previous_results]
       IN IF parsed = Absent
          THEN load_pc' = "raised:285" /\ UNCHANGED loaded
          ELSE IF parsed.top # "object"
          THEN load_pc' = "raised:287" /\ UNCHANGED loaded
          ELSE IF Len(parsed.values) = 0
          THEN load_pc' = "raised:288:IndexError" /\ UNCHANGED loaded
          ELSE IF parsed.values[1] # "object"
          THEN load_pc' = "raised:288:AssertionError" /\ UNCHANGED loaded
          ELSE load_pc' = "returned" /\ loaded' = parsed
    /\ UNCHANGED <<reference, previous_results, files, remote, download_log,
                   load_calls, files_at_call>>

\* Lines 94-102: another searcher is constructed with the same reference.
LoadAgain ==
    /\ load_pc = "returned"
    /\ UNCHANGED <<svars, evars>>
    /\ load_calls < MaxLoads
    /\ load_calls' = load_calls + 1
    /\ previous_results' = reference
    /\ files_at_call' = files
    /\ download_log' = <<>>
    /\ loaded' = Absent
    /\ load_pc' = "call"
    /\ UNCHANGED <<reference, files, remote>>

LoadIdle ==
    /\ reference = LocalRef
    /\ previous_results = LocalRef
    /\ files = [p \in Paths |-> Absent]
    /\ remote = [top |-> "object", values |-> <<>>]
    /\ load_pc = "idle"
    /\ download_log = <<>>
    /\ loaded = Absent
    /\ load_calls = 0
    /\ files_at_call = [p \in Paths |-> Absent]

\* ---------------------------------------------------------------- evaluate
\* The keys of a dict kept as a list of <<key, value>>.
Keys(d) == {d[i][1] : i \in 1..Len(d)}

\* d.get(key, []) on a dict kept as a list of <<key, value>>.
GetOrEmpty(d, key) ==
    IF key \in Keys(d) THEN d[CHOOSE i \in 1..Len(d) : d[i][1] = key][2] ELSE <<>>

Remove(s, i) == SubSeq(s, 1, i - 1) \o SubSeq(s, i + 1, Len(s))

\* Faulty variant of PopIdentical: nothing is popped.
PopIdentical_KeepAll(qid, rels) == rels

\* Lines 342-345: results[qid].pop(pid) for the pid equal to qid.
PopIdentical(qid, rels) == SelectSeq(rels, LAMBDA item : item[1] # qid)

\* Line 376: sorted(rels.items(), key=lambda item: item[1], reverse=True).
\* Python's sort is stable, also with reverse=True: among equal scores the
\* dict's insertion order is kept.
RECURSIVE SortedByScore(_)
SortedByScore(rels) ==
    IF rels = <<>> THEN <<>>
    ELSE LET best == CHOOSE i \in 1..Len(rels) :
                        /\ \A j \in 1..Len(rels) : rels[j][2] <= rels[i][2]
                        /\ \A j \in 1..(i - 1) : rels[j][2] < rels[i][2]
         IN <<rels[best]>> \o SortedByScore(Remove(rels, best))

\* The ranked list of pytrec_eval (trec_eval): by score descending, equal scores
\* by document id descending.
RECURSIVE TrecRanked(_)
TrecRanked(rels) ==
    IF rels = <<>> THEN <<>>
    ELSE LET best == CHOOSE i \in 1..Len(rels) :
                        \A j \in 1..Len(rels) :
                            \/ rels[j][2] < rels[i][2]
                            \/ (rels[j][2] = rels[i][2] /\ rels[j][1] <= rels[i][1])
         IN <<rels[best]>> \o TrecRanked(Remove(rels, best))

\* trec_eval: the judged-relevant documents of a query are those of grade > 0.
TrecRelevant(judged) == {d \in DOMAIN judged : judged[d] > 0}

\* trec_eval: the number of relevant documents among the first k ranked.
TrecRelRet(judged, rels, k) ==
    LET ranked == TrecRanked(rels)
    IN Cardinality({i \in 1..Min(k, Len(ranked)) :
                       ranked[i][1] \in TrecRelevant(judged)})

\* trec_eval recall_k and P_k of one query, as fractions <<numerator, denominator>>.
TrecRecall(judged, rels, k) ==
    IF TrecRelevant(judged) = {} THEN <<0, 1>>
    ELSE <<TrecRelRet(judged, rels, k), Cardinality(TrecRelevant(judged))>>

TrecPrecision(judged, rels, k) == <<TrecRelRet(judged, rels, k), k>>

KSet(kv) == {kv[i] : i \in 1..Len(kv)}

\* Lines 370-373: pytrec_eval.RelevanceEvaluator(qrels, ...).evaluate(results):
\* one entry per query of the run that has relevance judgments, in run order;
\* a query of the run without judgments gets no entry.
TrecEvaluate(judgments, run, kv) ==
    LET judgedRun == SelectSeq(run, LAMBDA e : e[1] \in DOMAIN judgments)
    IN [i \in 1..Len(judgedRun) |->
          <<judgedRun[i][1],
            [recall |-> [k \in KSet(kv) |->
                            TrecRecall(judgments[judgedRun[i][1]], judgedRun[i][2], k)],
             P      |-> [k \in KSet(kv) |->
                            TrecPrecision(judgments[judgedRun[i][1]], judgedRun[i][2], k)]]>>]

\* Lines 385-396: the CV_Recall@k entry of one query.
CvRecall(judgments, sorted, query_id, k) ==
    LET top_docs == GetOrEmpty(sorted, query_id)
        relevant_docs == IF query_id \in DOMAIN judgments
                         THEN DOMAIN judgments[query_id] ELSE {}
        top_k_docs == {top_docs[i][1] : i \in 1..Min(k, Len(top_docs))}
    IN IF relevant_docs \cap top_k_docs # {} THEN 1 ELSE 0

\* sum(list) of fractions, as a fraction.
RECURSIVE FracSum(_)
FracSum(list) ==
    IF list = <<>> THEN <<0, 1>>
    ELSE LET rest == FracSum(Tail(list))
         IN <<Head(list)[1] * rest[2] + rest[1] * Head(list)[2], Head(list)[2] * rest[2]>>

\* round(sum(list) / n, 5), in units of 0.00001.
RoundedMean(list, n) ==
    LET total == FracSum(list)
    IN (2 * 100000 * total[1] + total[2] * n) \div (2 * total[2] * n)

\* Lines 340-349: with ignore_identical_ids, pop every candidate whose id is
\* the query's id from the caller's results.
EvalIgnoreIdentical ==
    /\ ev_pc = "call"
    /\ UNCHANGED <<svars, lvars>>
    /\ ev_results' =
          IF ignore_identical_ids
          THEN [i \in 1..Len(ev_results) |->
                  <<ev_results[i][1], PopIdentical(ev_results[i][1], ev_results[i][2])>>]
          ELSE ev_results
    /\ ev_pc' = "trec"
    /\ UNCHANGED <<qrels, k_values, ignore_identical_ids, skip_first_result, scores,
                   sorted_results, all_recalls, all_precisions, all_cv_recalls,
                   means, all_sim_scores, called_with>>

\* Lines 351-373: empty metric lists per cutoff, then the trec-style evaluator.
\* (NDCG@k and MAP@k are appended in lock step with Recall@k and P@k and are
\* not kept here.)
EvalTrec ==
    /\ ev_pc = "trec"
    /\ UNCHANGED <<svars, lvars>>
    /\ all_recalls' = [k \in KSet(k_values) |-> <<>>]
    /\ all_precisions' = [k \in KSet(k_values) |-> <<>>]
    /\ all_cv_recalls' = [k \in KSet(k_values) |-> <<>>]
    /\ scores' = TrecEvaluate(qrels, ev_results, k_values)
    /\ ev_pc' = "sort"
    /\ UNCHANGED <<qrels, ev_results, k_values, ignore_identical_ids,
                   skip_first_result, sorted_results, means, all_sim_scores, called_with>>

\* Lines 375-382: sort every candidate list by score; with skip_first_result,
\* sorted_results[qid].pop(0) for every query in turn. list.pop(0) raises
\* IndexError on an empty list.
EvalSort ==
    /\ ev_pc = "sort"
    /\ UNCHANGED <<svars, lvars>>
    /\ LET sorted == [i \in 1..Len(ev_results) |->
                        <<ev_results[i][1], SortedByScore(ev_results[i][2])>>]
           empties == {i \in 1..Len(sorted) : sorted[i][2] = <<>>}
           stop == IF empties = {} THEN Len(sorted) + 1
                   ELSE CHOOSE i \in empties : \A j \in empties : i <= j
       IN IF skip_first_result
          THEN /\ sorted_results' = [i \in 1..Len(sorted) |->
                                       IF i < stop
                                       THEN <<sorted[i][1], Tail(sorted[i][2])>>
                                       ELSE sorted[i]]
               /\ ev_pc' = IF empties = {} THEN "collect" ELSE "raised:382"
          ELSE /\ sorted_results' = sorted
               /\ ev_pc' = "collect"
    /\ UNCHANGED <<qrels, ev_results, k_values, ignore_identical_ids,
                   skip_first_result, scores, all_recalls, all_precisions,
                   all_cv_recalls, means, all_sim_scores, called_with>>

\* Lines 384-396: for every query id of scores, append its trec values and its
\* CV_Recall@k to the per-cutoff lists.
EvalCollect ==
    /\ ev_pc = "collect"
    /\ UNCHANGED <<svars, lvars>>
    /\ all_recalls' = [k \in KSet(k_values) |->
                         [i \in 1..Len(scores) |-> scores[i][2].recall[k]]]
    /\ all_precisions' = [k \in KSet(k_values) |->
                            [i \in 1..Len(scores) |-> scores[i][2].P[k]]]
    /\ all_cv_recalls' = [k \in KSet(k_values) |->
                            [i \in 1..Len(scores) |->
                                CvRecall(qrels, sorted_results, scores[i][1], k)]]
    /\ ev_pc' = "mean"
    /\ UNCHANGED <<qrels, ev_results, k_values, ignore_identical_ids,
                   skip_first_result, scores, sorted_results, means, all_sim_scores, called_with>>

\* Lines 398-413: every list is reduced to round(sum / len(scores), 5);
\* the division raises ZeroDivisionError when scores is empty.
EvalMean ==
    /\ ev_pc = "mean"
    /\ UNCHANGED <<svars, lvars>>
    /\ IF Len(scores) = 0 /\ Len(k_values) > 0
       THEN /\ ev_pc' = "raised:407"
            /\ UNCHANGED means
       ELSE /\ ev_pc' = "abstention"
            /\ means' =
                 [recall |-> [k \in KSet(k_values) |->
                                 RoundedMean(all_recalls[k], Len(scores))],
                  precision |-> [k \in KSet(k_values) |->
                                    RoundedMean(all_precisions[k], Len(scores))],
                  cv_recall |-> [k \in KSet(k_values) |->
                                    RoundedMean([i \in 1..Len(all_cv_recalls[k]) |->
                                                    <<all_cv_recalls[k][i], 1>>],
                                                Len(scores))]]
    /\ UNCHANGED <<qrels, ev_results, k_values, ignore_identical_ids,
                   skip_first_result, scores, sorted_results, all_recalls,
                   all_precisions, all_cv_recalls, all_sim_scores, called_with>>

\* Lines 415-420 and 453-457: evaluate_abstention(results, lists) takes one score
\* list, hence one confidence scalar per estimator, for every query of results;
\* all_conf_scores[0] raises IndexError when results is empty.
EvalAbstention ==
    /\ ev_pc = "abstention"
    /\ UNCHANGED <<svars, lvars>>
    /\ all_sim_scores' = [i \in 1..Len(ev_results) |->
                            [j \in 1..Len(ev_results[i][2]) |-> ev_results[i][2][j][2]]]
    /\ ev_pc' = IF Len(ev_results) = 0 THEN "raised:457" ELSE "returned"
    /\ UNCHANGED <<qrels, ev_results, k_values, ignore_identical_ids,
                   skip_first_result, scores, sorted_results, all_recalls,
                   all_precisions, all_cv_recalls, means, called_with>>

\* The candidate lists, rankings and judgments evaluate() is called with.
CandLists ==
    UNION {{[i \in 1..n |-> <<p[i], sc[i]>>] :
              p \in {f \in [1..n -> EvalDocIds] :
                        \A i, j \in 1..n : i # j => f[i] # f[j]},
              sc \in [1..n -> EvalScores]} : n \in 0..Cardinality(EvalDocIds)}

Rankings ==
    UNION {{[i \in 1..Len(ql) |-> <<ql[i], c[i]>>] : c \in [1..Len(ql) -> CandLists]} :
              ql \in EvalQueryLists}

Judgments ==
    UNION {[Q -> UNION {[D -> Grades] : D \in SUBSET EvalDocIds}] :
              Q \in SUBSET EvalQueryIds}

\* No evaluate() call is in progress.
EvalIdle ==
    /\ qrels = <<>>
    /\ ev_results = <<>>
    /\ k_values = <<>>
    /\ ignore_identical_ids = FALSE
    /\ skip_first_result = FALSE
    /\ ev_pc = "idle"
    /\ scores = <<>>
    /\ sorted_results = <<>>
    /\ all_recalls = <<>>
    /\ all_precisions = <<>>
    /\ all_cv_recalls = <<>>
    /\ means = <<>>
    /\ all_sim_scores = <<>>
    /\ called_with = <<>>

\* No search() call is in progress.
SearchIdle ==
    /\ corpus = <<>>
    /\ queries = <<>>
    /\ corpus_chunk_size = 1
    /\ top_k = 0
    /\ pc = "idle"
    /\ results = <<>>
    /\ result_heaps = <<>>
    /\ chunk_start = 0
    /\ query_itr = 1
    /\ top_k_cands = <<>>
    /\ returned = <<>>
    /\ model = "encoder"
    /\ score_function = "cos_sim"
    /\ encode_log = <<>>
    /\ exception = NoException

EInit ==
    /\ SearchIdle
    /\ LoadIdle
    /\ qrels \in Judgments
    /\ ev_results \in Rankings
    /\ k_values = [i \in 1..MaxK |-> i]
    /\ ignore_identical_ids \in BOOLEAN
    /\ skip_first_result \in BOOLEAN
    /\ ev_pc = "call"
    /\ scores = <<>>
    /\ sorted_results = <<>>
    /\ all_recalls = <<>>
    /\ all_precisions = <<>>
    /\ all_cv_recalls = <<>>
    /\ means = <<>>
    /\ all_sim_scores = <<>>
    /\ called_with = [qrels |-> qrels, results |-> ev_results]

ENext ==
    \/ EvalIgnoreIdentical
    \/ EvalTrec
    \/ EvalSort
    \/ EvalCollect
    \/ EvalMean
    \/ EvalAbstention

SpecEval == EInit /\ [][ENext]_vars

\* An evaluator is constructed (lines 293-309) around a retriever, which may be
\* None, and called with a corpus and queries.
SearchStart ==
    /\ corpus_chunk_size \in 1..MaxCorpus
    /\ pc = "evaluator_call"
    /\ results = <<>>
    /\ result_heaps = <<>>
    /\ chunk_start = 0
    /\ query_itr = 1
    /\ top_k_cands = <<>>
    /\ returned = <<>>
    /\ encode_log = <<>>
    /\ exception = NoException
    /\ EvalIdle
    /\ LoadIdle

SInit ==
    /\ corpus \in Corpora
    /\ queries \in QuerySets
    /\ top_k \in 0..MaxTopK
    /\ model \in {"encoder", "None"}
    /\ score_function \in ScoreFunctionNames
    /\ SearchStart

\* An evaluator around an encoder is called with a corpus and queries of any
\* modality, for the best match under the dot product.
MInit ==
    /\ corpus \in TaggedCorpora
    /\ queries \in TaggedQuerySets
    /\ top_k = 1
    /\ model = "encoder"
    /\ score_function = "dot"
    /\ SearchStart

SNext ==
    \/ EvaluatorCall
    \/ SearchBegin
    \/ ChunkScore
    \/ HeapUpdate
    \/ NextQuery
    \/ NextChunk
    \/ SearchReturn
    \/ Construct
    \/ SearchAgain
    \/ SearchUnregistered

Spec == SInit /\ [][SNext]_vars

SpecModality == MInit /\ [][SNext]_vars

\* A searcher is constructed (lines 94-102) with a previous_results reference,
\* local or remote, over some file system.
LInit ==
    /\ SearchIdle
    /\ EvalIdle
    /\ reference \in {LocalRef, RemoteRef}
    /\ previous_results = reference
    /\ files \in [Paths -> JsonValues \cup {Absent}]
    /\ remote \in JsonValues
    /\ load_pc = "call"
    /\ download_log = <<>>
    /\ loaded = Absent
    /\ load_calls = 1
    /\ files_at_call = files

LNext ==
    \/ LoadBegin
    \/ LoadParse
    \/ LoadAgain

SpecLoad == LInit /\ [][LNext]_vars

\* ------------------------------------------------------------------ claims
\* The scores of one query's result dict, with multiplicity: score -> count.
ScoreBag(rels) ==
    [s \in {rels[cid] : cid \in DOMAIN rels} |->
        Cardinality({cid \in DOMAIN rels : rels[cid] = s})]

\* C1: at every point of the chunk scan each query's heap holds at most top_k
\* (score, corpus_id) entries, and every Ranking search() returns maps every
\* query id to at most top_k corpus ids.
C1_TopKBound ==
    /\ pc \in {"scan", "push"} =>
         \A qid \in DOMAIN result_heaps : Cardinality(result_heaps[qid]) <= top_k
    /\ \A n \in 1..Len(returned) :
         \A qid \in DOMAIN returned[n].ranking :
            Cardinality(DOMAIN returned[n].ranking[qid]) <= returned[n].top_k

\* C1 witness: a full heap (top_k >= 1 entries) is offered one more candidate.
C1_Witness ==
    /\ pc = "push"
    /\ top_k >= 1
    /\ query_itr <= Len(queries)
    /\ top_k_cands[query_itr] # {}
    /\ Cardinality(result_heaps[queries[query_itr].id]) = top_k

\* C2: two searches over the same corpus, queries and top_k that differ in
\* corpus_chunk_size return, for every query, the same scores (with the same
\* multiplicities).
C2_ChunkSizeIrrelevant ==
    (Len(returned) = 2 /\ returned[1].top_k = returned[2].top_k) =>
        /\ DOMAIN returned[1].ranking = DOMAIN returned[2].ranking
        /\ \A qid \in DOMAIN returned[1].ranking :
              ScoreBag(returned[1].ranking[qid]) = ScoreBag(returned[2].ranking[qid])

\* C2 witness: a corpus larger than top_k was scanned once in one chunk and once
\* item by item, and a score tie let the two calls return different corpus ids.
C2_Witness ==
    /\ Len(returned) = 2
    /\ returned[1].top_k = returned[2].top_k
    /\ returned[1].top_k >= 1
    /\ Len(corpus) > returned[1].top_k
    /\ {returned[1].corpus_chunk_size, returned[2].corpus_chunk_size} = {1, Len(corpus)}
    /\ returned[1].ranking # returned[2].ranking

\* Every corpus id of ranking r1 is in r2 for the same query, with the same score.
C3_Superset(r1, r2) ==
    \A qid \in DOMAIN r1 :
        \A cid \in DOMAIN r1[qid] :
            cid \in DOMAIN r2[qid] /\ r2[qid][cid] = r1[qid][cid]

\* C3 as stated: with a larger top_k (corpus, queries, scorer and chunk size
\* unchanged) every query gets a superset of the corpus ids it got with the
\* smaller top_k, each with the same score.
C3_AsStated ==
    (/\ Len(returned) = 2
     /\ returned[1].corpus_chunk_size = returned[2].corpus_chunk_size
     /\ returned[1].top_k <= returned[2].top_k) =>
        C3_Superset(returned[1].ranking, returned[2].ranking)

\* The scores search() computes for query position q over the whole corpus.
RowScores(q) ==
    [j \in 1..Len(corpus) |->
        NanToMinusOne(ScoreWith(score_function, queries[q].emb, corpus[j].emb))]

NoTies(q) ==
    \A i, j \in 1..Len(corpus) : i # j => RowScores(q)[i] # RowScores(q)[j]

\* C3 amended: for every query whose scores over the corpus are pairwise
\* different, a larger top_k yields a superset of the corpus ids returned with
\* the smaller top_k, each with the same score; for every query, tied or not,
\* the scores returned with the smaller top_k are among those returned with the
\* larger one, with at least the same multiplicity.
C3_SupersetWhenNoTies ==
    (/\ Len(returned) = 2
     /\ returned[1].corpus_chunk_size = returned[2].corpus_chunk_size
     /\ returned[1].top_k <= returned[2].top_k) =>
        \A q \in 1..Len(queries) :
            LET r1 == returned[1].ranking[queries[q].id]
                r2 == returned[2].ranking[queries[q].id]
            IN /\ NoTies(q) =>
                    \A cid \in DOMAIN r1 : cid \in DOMAIN r2 /\ r2[cid] = r1[cid]
               /\ \A s \in DOMAIN ScoreBag(r1) :
                    s \in DOMAIN ScoreBag(r2) /\ ScoreBag(r1)[s] <= ScoreBag(r2)[s]

\* C3 witness: a tie-free query got one id with top_k = 1 and two with top_k = 2
\* out of three corpus items.
C3_Witness ==
    /\ Len(returned) = 2
    /\ returned[1].corpus_chunk_size = returned[2].corpus_chunk_size
    /\ returned[1].top_k = 1
    /\ returned[2].top_k = 2
    /\ Len(corpus) = 3
    /\ \E q \in 1..Len(queries) :
         /\ NoTies(q)
         /\ Cardinality(DOMAIN returned[1].ranking[queries[q].id]) = 1
         /\ Cardinality(DOMAIN returned[2].ranking[queries[q].id]) = 2

\* C4 as stated: search() over an empty corpus and a non-empty query set ends
\* by returning a Ranking that maps every query id to an empty mapping.
C4_EmptyCorpusReturns ==
    (/\ Len(corpus) = 0
     /\ Len(queries) > 0
     /\ model = "encoder"
     /\ score_function \in score_functions
     /\ pc \notin {"idle", "evaluator_call", "call"}) =>
        /\ pc = "returned"
        /\ results = EmptyRanking(Ids(queries))

\* ------------------------------------------------------- claims on evaluate
EvalCollected == ev_pc \in {"mean", "abstention", "returned", "raised:407", "raised:457"}

CandIds(rels) == {rels[j][1] : j \in 1..Len(rels)}

\* C5 as stated: evaluate() leaves the caller's ranking and qrels exactly as
\* they were passed, whatever the two flags are.
C5_InputsNeverMutated ==
    ev_pc # "idle" =>
        /\ ev_results = called_with.results
        /\ qrels = called_with.qrels

\* C6 as stated: the CV_Recall@k entry of a query is 1.0 exactly if one of its
\* k highest-scoring candidates is judged relevant (grade > 0) in qrels.
\* (Stated for calls without skip_first_result, which C10 is about.)
C6_CvRecallHitsRelevant ==
    (EvalCollected /\ ~skip_first_result) =>
        \A k \in KSet(k_values) :
            \A i \in 1..Len(all_cv_recalls[k]) :
                LET qid == scores[i][1]
                    top == SortedByScore(GetOrEmpty(ev_results, qid))
                    hit == \E j \in 1..Min(k, Len(top)) :
                              /\ top[j][1] \in DOMAIN qrels[qid]
                              /\ qrels[qid][top[j][1]] > 0
                IN all_cv_recalls[k][i] = IF hit THEN 1 ELSE 0

\* C7 as stated: whenever the trec Recall@k of a query is greater than 0, its
\* CV_Recall@k is 1.0, equal scores included.
\* (Stated for calls without skip_first_result.)
C7_RecallImpliesCvRecall ==
    (EvalCollected /\ ~skip_first_result) =>
        \A k \in KSet(k_values) :
            \A i \in 1..Len(all_recalls[k]) :
                all_recalls[k][i][1] > 0 => all_cv_recalls[k][i] = 1

\* C8 as stated: every query of the ranking contributes exactly one entry to
\* each per-query list (0 for a query absent from qrels), so every list has as
\* many entries as the ranking has queries, in the ranking's order, like the
\* score lists evaluate_abstention takes the confidence scalars from.
C8_OneEntryPerRankingQuery ==
    /\ EvalCollected =>
          \A k \in KSet(k_values) :
             /\ Len(all_recalls[k]) = Len(ev_results)
             /\ Len(all_precisions[k]) = Len(ev_results)
             /\ Len(all_cv_recalls[k]) = Len(ev_results)
             /\ \A i \in 1..Len(all_recalls[k]) :
                   ev_results[i][1] \notin DOMAIN qrels =>
                      /\ all_recalls[k][i][1] = 0
                      /\ all_cv_recalls[k][i] = 0
    /\ ev_pc = "returned" =>
          \A k \in KSet(k_values) : Len(all_sim_scores) = Len(all_cv_recalls[k])

\* C9: with ignore_identical_ids, from the first step of evaluate() on, every
\* query of the ranking has lost exactly the candidate whose id is the query's
\* id: the other candidates are all there, in their order and with their
\* scores, and neither the list given to the trec evaluator nor the sorted list
\* CV_Recall is taken from holds the query's own id.
C9_IdenticalIdsRemoved ==
    (ignore_identical_ids /\ ev_pc \notin {"idle", "call"}) =>
        /\ Len(ev_results) = Len(called_with.results)
        /\ \A i \in 1..Len(ev_results) :
              LET qid == called_with.results[i][1]
                  before == called_with.results[i][2]
                  after == ev_results[i][2]
                  kept == {j \in 1..Len(before) : before[j][1] # qid}
              IN /\ ev_results[i][1] = qid
                 /\ qid \notin CandIds(after)
                 /\ Len(after) = Cardinality(kept)
                 /\ \A j \in kept :
                       after[Cardinality({h \in kept : h <= j})] = before[j]
        /\ \A i \in 1..Len(sorted_results) :
              sorted_results[i][1] \notin CandIds(sorted_results[i][2])

\* C9 witness: evaluate() returned, every ranking query being judged, after a
\* query that had come with its own id and another candidate kept only the
\* other one.
C9_Witness ==
    /\ ignore_identical_ids
    /\ ev_pc = "returned"
    /\ Len(scores) = Len(ev_results)
    /\ \E i \in 1..Len(ev_results) :
          /\ ev_results[i][1] \in CandIds(called_with.results[i][2])
          /\ Len(called_with.results[i][2]) = 2
          /\ Len(ev_results[i][2]) = 1

\* C10 as stated: with skip_first_result, evaluate() gets past the sorting of
\* every query's candidates, a query without candidates included, and takes
\* CV_Recall@k from the candidates ranked 2 to k + 1.
C10_SkipFirstCompletes ==
    skip_first_result =>
        /\ ev_pc # "raised:382"
        /\ EvalCollected =>
              \A k \in KSet(k_values) :
                 \A i \in 1..Len(all_cv_recalls[k]) :
                    LET qid == scores[i][1]
                        ranked == SortedByScore(GetOrEmpty(ev_results, qid))
                        hit == \E j \in 2..Min(k + 1, Len(ranked)) :
                                  ranked[j][1] \in DOMAIN qrels[qid]
                    IN all_cv_recalls[k][i] = IF hit THEN 1 ELSE 0

\* ------------------------------------------- claims on load_results_file
\* C11 as stated: when the local cache file of a remote reference exists as the
\* call begins, load_results_file() calls download() not at all, and what it
\* returns is the content of that existing file.
C11_CachedNeverDownloads ==
    (/\ load_pc \notin {"idle", "call"}
     /\ HasScheme(reference)
     /\ files_at_call[DestFile(reference)] # Absent) =>
        /\ download_log = <<>>
        /\ load_pc = "returned" => loaded = files_at_call[DestFile(reference)]

\* C12 as stated: load_results_file() returns only objects all of whose values
\* are objects; anything else that was parsed ends in the assertion error of
\* lines 287-288.
C12_MalformedNeverReturned ==
    /\ load_pc = "returned" =>
          /\ loaded.top = "object"
          /\ \A i \in 1..Len(loaded.values) : loaded.values[i] = "object"
    /\ (/\ load_pc \notin {"idle", "call", "open", "raised:283", "raised:285"}
        /\ \/ files[previous_results].top # "object"
           \/ \E i \in 1..Len(files[previous_results].values) :
                 files[previous_results].values[i] # "object") =>
          load_pc \in {"raised:287", "raised:288:AssertionError"}

\* ------------------------------------------ claims on the evaluator call
\* C13 as stated: the call of an evaluator constructed with retriever=None
\* ends in the ValueError of line 317, and search() is never entered.
C13_MissingRetrieverRaised ==
    (model = "None" /\ pc # "evaluator_call") => pc = "raised:317"

\* C14: a search() call whose score_function is neither cos_sim nor dot ends in
\* the ValueError of line 115 with that name in its message, no query or corpus
\* item has been encoded by the call, and self.results is what it was before
\* the call: the Ranking of the previous call, or empty on a new searcher.
C14_UnregisteredScoreFunction ==
    (score_function \notin {"cos_sim", "dot"} /\ pc \notin {"idle", "evaluator_call", "call"}) =>
        /\ pc = "raised:115"
        /\ exception = [type |-> "ValueError", value |-> score_function]
        /\ encode_log = <<>>
        /\ results = IF Len(returned) = 0 THEN <<>> ELSE returned[Len(returned)].ranking

\* C14 witness: a searcher that holds a non-empty Ranking from a first call has
\* refused a second call for its unregistered score function.
C14_Witness ==
    /\ pc = "raised:115"
    /\ Len(returned) = 1
    /\ results = returned[1].ranking
    /\ \E qid \in DOMAIN results : DOMAIN results[qid] # {}

\* The corpus items of the chunks processed so far.
Seen == Min(chunk_start, Len(corpus))

\* The seen corpus positions whose (score, corpus_id) pair is in the heap of
\* the q-th query.
Kept(q) ==
    {j \in 1..Seen : <<RowScores(q)[j], corpus[j].id>> \in result_heaps[queries[q].id]}

\* C15: whenever a chunk has been processed, the heap of every query holds
\* min(top_k, items seen) entries, each the (score, id) pair of a seen item, and
\* no seen item left out scores higher than one that is kept.
C15_HeapHoldsTopOfSeen ==
    pc = "scan" =>
        \A q \in 1..Len(queries) :
            /\ Cardinality(result_heaps[queries[q].id]) = Min(top_k, Seen)
            /\ Cardinality(Kept(q)) = Min(top_k, Seen)
            /\ \A j \in Kept(q) : \A i \in (1..Seen) \ Kept(q) :
                  RowScores(q)[i] <= RowScores(q)[j]

\* C15 witness: after the second chunk a heap is full, keeps an item of the
\* first chunk and leaves out a seen item of a lower score.
C15_Witness ==
    /\ pc = "scan"
    /\ top_k >= 1
    /\ chunk_start > corpus_chunk_size
    /\ \E q \in 1..Len(queries) :
         /\ \E j \in Kept(q) : j <= corpus_chunk_size
         /\ \E j \in Kept(q) : \E i \in (1..Seen) \ Kept(q) :
               RowScores(q)[i] < RowScores(q)[j]

\* C16 as stated: every chunk is encoded with the encoder of the modality tag
\* of its own first item, and no chunk whose first item carries another tag
\* than text, audio or audio,text is scored.
C16_ChunkFirstItemSelects ==
    /\ \A k \in 2..Len(encode_log) :
          encode_log[k].encoder =
             EncoderOf(corpus[(k - 2) * corpus_chunk_size + 1].modality)
    /\ pc = "push" => corpus[chunk_start + 1].modality \in SupportedModalities

\* The ids of the k-th chunk of corpus_chunk_size consecutive corpus items.
ChunkIds(k) ==
    [j \in 1..Min(corpus_chunk_size, Len(corpus) - (k - 1) * corpus_chunk_size) |->
        corpus[(k - 1) * corpus_chunk_size + j].id]

\* C17: a call encodes the query set once, then the corpus chunk after chunk:
\* the k-th passage call gets exactly the k-th run of corpus_chunk_size
\* consecutive items, the last run possibly shorter, and on return the runs
\* cover the corpus; every returned score of a corpus id is the score of the
\* item that carries this id.
C17_EachItemOnceInOrder ==
    /\ pc \in {"scan", "push", "returned"} =>
          /\ Len(encode_log) >= 1
          /\ encode_log[1].role = "query"
          /\ encode_log[1].ids = Ids(queries)
          /\ \A k \in 2..Len(encode_log) :
                /\ encode_log[k].role = "passage"
                /\ encode_log[k].ids = ChunkIds(k - 1)
                /\ Len(encode_log[k].ids) >= 1
    /\ pc = "returned" =>
          /\ (Len(encode_log) - 1) * corpus_chunk_size >= Len(corpus)
          /\ \A q \in 1..Len(queries) :
                \A cid \in DOMAIN results[queries[q].id] :
                   \E j \in 1..Len(corpus) :
                      /\ corpus[j].id = cid
                      /\ results[queries[q].id][cid] = RowScores(q)[j]

\* C17 witness: a call returned after two chunks, the second shorter than the
\* first, with a score for some corpus item of the second chunk.
C17_Witness ==
    /\ pc = "returned"
    /\ Len(encode_log) = 3
    /\ Len(encode_log[3].ids) < Len(encode_log[2].ids)
    /\ \E q \in 1..Len(queries) :
         \E j \in (corpus_chunk_size + 1)..Len(corpus) :
            corpus[j].id \in DOMAIN results[queries[q].id]
====
